---- MODULE Spec2Model ----
(***************************************************************************)
(* Budget-aware reasoning demo (app.py, case_studies.py): the resolution   *)
(* pipeline behind the Gradio page.                                        *)
(*                                                                         *)
(* Representation.  A Python str is a sequence of word tokens; adjacent    *)
(* tokens are separated by one blank, the token NL is a line break.  The   *)
(* phrase "Final Answer:" is the two tokens "Final", "Answer:" and the     *)
(* marker "[STATIC FALLBACK]" the two tokens "[STATIC", "FALLBACK]", so    *)
(* that str.startswith, str.replace and the substring test act on them as  *)
(* they act on the characters.  The glyphs of the page are written in      *)
(* ASCII: "[X]" is the cross mark, "[OK]" the check mark, "[#]" the        *)
(* number sign.  A Python number is kept in tenths (Num), so that          *)
(* word_count * 1.3 stays exact.                                           *)
(***************************************************************************)
EXTENDS Integers, Sequences, FiniteSets, TLC

VARIABLES
    case_study_select,  \* gr.Dropdown value          (app.py:574)
    budget_radio,       \* gr.Radio value             (app.py:580)
    custom_prompt,      \* gr.Textbox value           (app.py:594)
    dynamic_mode,       \* gr.Checkbox value          (app.py:588)
    reasoning_trace,    \* output Textbox             (app.py:614)
    actual_tokens,      \* output Textbox             (app.py:622)
    final_answer,       \* output Textbox             (app.py:627)
    hf_token,           \* os.getenv("HF_TOKEN") is set
    local_model,        \* the module-level pipeline was built (not None)
    h,                  \* the running event handlers, one record per slot
    n_actions,          \* user actions taken in this session
    fn                  \* one helper function called on its own: argument and result

vars == <<case_study_select, budget_radio, custom_prompt, dynamic_mode,
          reasoning_trace, actual_tokens, final_answer,
          hf_token, local_model, h, n_actions, fn>>

-----------------------------------------------------------------------------
(* Bounds of the model *)

\* user actions of one page session (the initial load included)
MaxActions == 2

-----------------------------------------------------------------------------
(* Text *)

NL == "<NL>"

IsBlankTok(t) == t = NL

RECURSIVE LStrip(_)
LStrip(s) == IF s # <<>> /\ IsBlankTok(Head(s)) THEN LStrip(Tail(s)) ELSE s

RECURSIVE RStrip(_)
RStrip(s) ==
    IF s # <<>> /\ IsBlankTok(s[Len(s)]) THEN RStrip(SubSeq(s, 1, Len(s) - 1)) ELSE s

\* str.strip()
Strip(s) == RStrip(LStrip(s))

\* str.startswith(p)
StartsWith(s, p) == Len(p) <= Len(s) /\ SubSeq(s, 1, Len(p)) = p

\* p in s
Contains(s, p) ==
    \E i \in 1..(Len(s) - Len(p) + 1) : SubSeq(s, i, i + Len(p) - 1) = p

\* str.split(): the words, on any white space
Words(s) == SelectSeq(s, LAMBDA t : ~IsBlankTok(t))

\* str.split('\n'): the lines, one more than there are line breaks
RECURSIVE SplitLines(_)
SplitLines(s) ==
    IF \A i \in 1..Len(s) : s[i] # NL
    THEN <<s>>
    ELSE LET k == CHOOSE i \in 1..Len(s) : s[i] = NL /\ \A j \in 1..(i - 1) : s[j] # NL
         IN  <<SubSeq(s, 1, k - 1)>> \o SplitLines(SubSeq(s, k + 1, Len(s)))

\* str.replace(p, ""): every non-overlapping occurrence, left to right
RECURSIVE RemoveAll(_, _)
RemoveAll(s, p) ==
    IF s = <<>> THEN <<>>
    ELSE IF StartsWith(s, p) THEN RemoveAll(SubSeq(s, Len(p) + 1, Len(s)), p)
    ELSE <<Head(s)>> \o RemoveAll(Tail(s), p)

Reverse(s) == [i \in 1..Len(s) |-> s[Len(s) + 1 - i]]

-----------------------------------------------------------------------------
(* Numbers: value * 10, and whether Python holds it as a float *)

IntNum(n) == [float |-> FALSE, x10 |-> 10 * n]
Float10(x) == [float |-> TRUE, x10 |-> x]

\* str(number) as the f-strings print it
Fmt(n) ==
    IF n.float
    THEN ToString(n.x10 \div 10) \o "." \o ToString(n.x10 % 10)
    ELSE ToString(n.x10 \div 10)

\* Optional str: None, or a text
None == [none |-> TRUE, text |-> <<>>]
Some(t) == [none |-> FALSE, text |-> t]

-----------------------------------------------------------------------------
(* Configuration and catalog *)

BudgetLevels == {"Low", "Medium", "High"}

BUDGET_MAPPING == [l \in BudgetLevels |->
    CASE l = "Low" -> 50 [] l = "Medium" -> 110 [] l = "High" -> 200]

Example(r, t, a) == [response |-> r, tokens |-> t, answer |-> a]

\* The canned responses are cut to their first and last words; the keys,
\* their insertion order, the token counts and the answers are the table's.
CASE_STUDIES ==
    [c \in {"Math Word Problem", "Capital City Finder", "Logical Deduction",
            "Summarize an Article", "Analogy Generation"} |->
      CASE c = "Math Word Problem" ->
            [prompt |-> <<"Weng", "earn?">>,
             keys |-> <<50, 110, 200>>,
             budgets |-> [k \in {50, 110, 200} |->
                CASE k = 50  -> Example(<<"Weng", "earns", NL, "$10.">>, 48, <<"$10">>)
                  [] k = 110 -> Example(<<"Weng's", NL, "$10.00.">>, 95, <<"$10.00">>)
                  [] k = 200 -> Example(<<"The", NL, NL, "babysitting.">>, 198, <<"$10.00">>)]]
        [] c = "Capital City Finder" ->
            [prompt |-> <<"What", "located?">>,
             keys |-> <<60, 100, 150>>,
             budgets |-> [k \in {60, 100, 150} |->
                CASE k = 60  -> Example(<<"Thought:", NL, "France.">>, 98, <<"France">>)
                  [] k = 100 -> Example(<<"Thought:", NL, "Final", "Answer:", "Paris">>, 55, <<"Paris">>)
                  [] k = 150 -> Example(<<"Thought:", NL, "Final", "Answer:", "Paris.">>, 145, <<"Paris">>)]]
        [] c = "Logical Deduction" ->
            [prompt |-> <<"You", NL, "prize?">>,
             keys |-> <<50, 110, 200>>,
             budgets |-> [k \in {50, 110, 200} |->
                CASE k = 50  -> Example(<<"Based", "C.">>, 48, <<"Box A or Box C">>)
                  [] k = 110 -> Example(<<"Clue", "yet.">>, 105, <<"Box A or Box C">>)
                  [] k = 200 -> Example(<<"Let's", NL, "A.">>, 195, <<"Box A">>)]]
        [] c = "Summarize an Article" ->
            [prompt |-> <<"Article:", "sentence.">>,
             keys |-> <<60, 120, 180>>,
             budgets |-> [k \in {60, 120, 180} |->
                CASE k = 60  -> Example(<<"The", "Mayor.">>, 55, <<"A summary.">>)
                  [] k = 120 -> Example(<<"In", "community.">>, 115,
                                        <<"A more detailed, single-sentence summary.">>)
                  [] k = 180 -> Example(<<"To", "community'.">>, 175,
                                        <<"A comprehensive summary with a direct quote.">>)]]
        [] c = "Analogy Generation" ->
            [prompt |-> <<"Explain", "analogy.">>,
             keys |-> <<50, 125, 200>>,
             budgets |-> [k \in {50, 125, 200} |->
                CASE k = 50  -> Example(<<"A", "out.">>, 45, <<"A simple analogy.">>)
                  [] k = 125 -> Example(<<"Think", "threats.">>, 120, <<"A more detailed analogy.">>)
                  [] k = 200 -> Example(<<"A", "workspace.">>, 195,
                                        <<"A comprehensive, multi-part analogy.">>)]]]

CatalogNames == DOMAIN CASE_STUDIES

\* list(d.keys()): the keys in insertion order
BudgetKeys(case) == case.keys

\* {'Low': keys[0], 'Medium': keys[1], 'High': keys[2]}[budget_level]
TierIndexSlip(budget_level) ==
    CASE budget_level = "Low" -> 1 [] budget_level = "Medium" -> 2 [] budget_level = "High" -> 2

TierIndex(budget_level) ==
    CASE budget_level = "Low" -> 1 [] budget_level = "Medium" -> 2 [] budget_level = "High" -> 3

SelectedBudget(budget_keys, budget_level) == budget_keys[TierIndex(budget_level)]

-----------------------------------------------------------------------------
(* Token estimator, prompt composer, typing generator *)

\* tiktoken refuses a text that holds one of its special tokens
SpecialTok == "<|endoftext|>"
EncodeRaises(text) == \E i \in 1..Len(text) : text[i] = SpecialTok

\* len(tokenizer.encode(text)): the library's count, here one per token
EncodeLen(text) == Len(text)

count_tokens(text) ==
    IF EncodeRaises(text)
    THEN Float10(Len(Words(text)) * 13)
    ELSE IntNum(EncodeLen(text))

SimulateTypingWordByWord(text) ==
    LET words == Words(text)
    IN  [k \in 1..Len(words) |-> <<words[k]>>]

\* the values the generator yields, in order
simulate_typing(text) ==
    LET words == Words(text)
    IN  [k \in 1..Len(words) |-> SubSeq(words, 1, k)]

\* "Capital City Finder" in case_name, for the names of the model
IsAgenticName(case_name) == case_name = "Capital City Finder"

create_budget_prompt(original_prompt, budget_tokens, case_type) ==
    IF case_type = "agentic"
    THEN <<"You", "are", ToString(budget_tokens), "Use", "this", "format:", NL,
           "Problem:">> \o original_prompt
    ELSE <<"You", "have", ToString(budget_tokens), NL, "Problem:">> \o original_prompt

-----------------------------------------------------------------------------
(* Inference candidates.  An outcome is what the network or the pipeline   *)
(* did on one call: its kind, and for a generated text whether the prompt  *)
(* is echoed in front of the body.                                         *)

GenBodies ==
    { <<>>,
      <<"step", NL, "Final", "Answer:", "42">>,
      <<"[STATIC", "FALLBACK]", "x">>,
      <<SpecialTok, NL>> }

Outcome(k, e, b) == [kind |-> k, echo |-> e, body |-> b]

HFOutcomes ==
    { Outcome(k, FALSE, <<>>) : k \in {"no_token", "http_error", "bad_format", "exception"} }
    \cup { Outcome("ok", e, b) : e \in BOOLEAN, b \in GenBodies }

LocalOutcomes ==
    { Outcome(k, FALSE, <<>>) : k \in {"no_model", "no_response", "exception"} }
    \cup { Outcome("ok", e, b) : e \in BOOLEAN, b \in GenBodies }

\* the text the model generated: the body, after the prompt when it is echoed
Generated(prompt, o) == IF o.echo THEN prompt \o o.body ELSE o.body

\* the clean-up both candidates apply to a generated text
CleanUp(prompt, generated_text) ==
    IF StartsWith(generated_text, prompt)
    THEN Strip(SubSeq(generated_text, Len(prompt) + 1, Len(generated_text)))
    ELSE generated_text

\* (response_text, error) of one call, by its outcome
query_huggingface_api(prompt, o) ==
    CASE o.kind = "no_token"   -> [text |-> None, error |-> "No HF token available"]
      [] o.kind = "ok"         -> [text |-> Some(CleanUp(prompt, Generated(prompt, o))),
                                   error |-> "None"]
      [] o.kind = "bad_format" -> [text |-> None, error |-> "Invalid response format"]
      [] o.kind = "http_error" -> [text |-> None, error |-> "API error"]
      [] OTHER                 -> [text |-> None, error |-> "API request failed"]

query_local_model(prompt, o) ==
    CASE o.kind = "no_model"    -> [text |-> None, error |-> "Local model not available"]
      [] o.kind = "ok"          -> [text |-> Some(CleanUp(prompt, Generated(prompt, o))),
                                    error |-> "None"]
      [] o.kind = "no_response" -> [text |-> None, error |-> "No response generated"]
      [] OTHER                  -> [text |-> None, error |-> "Local model error"]

-----------------------------------------------------------------------------
(* Answer extractor and static fallback *)

FinalAnswerPrefix == <<"Final", "Answer:">>
AnswerPrefix == <<"Answer:">>

\* the first loop: the first line that starts with either prefix
RECURSIVE ScanLines(_)
ScanLines(lines) ==
    IF lines = <<>> THEN None
    ELSE LET line == Strip(Head(lines))
         IN  IF StartsWith(line, FinalAnswerPrefix)
             THEN Some(Strip(RemoveAll(line, FinalAnswerPrefix)))
             ELSE IF StartsWith(line, AnswerPrefix)
             THEN Some(Strip(RemoveAll(line, AnswerPrefix)))
             ELSE ScanLines(Tail(lines))

\* the second loop: the last line that is not blank
RECURSIVE FirstNonBlank(_)
FirstNonBlank(lines) ==
    IF lines = <<>> THEN None
    ELSE IF Strip(Head(lines)) # <<>> THEN Some(Strip(Head(lines)))
    ELSE FirstNonBlank(Tail(lines))

ExtractFirstLineFallback(response_text) ==
    LET lines == SplitLines(response_text)
        hit   == ScanLines(lines)
        last  == FirstNonBlank(lines)
    IN  IF ~hit.none THEN hit.text
        ELSE IF ~last.none THEN last.text
        ELSE <<"No clear answer found">>

extract_final_answer(response_text) ==
    LET lines == SplitLines(response_text)
        hit   == ScanLines(lines)
        last  == FirstNonBlank(Reverse(lines))
    IN  IF ~hit.none THEN hit.text
        ELSE IF ~last.none THEN last.text
        ELSE <<"No clear answer found">>

StaticFallbackMark == <<"[STATIC", "FALLBACK]">>

\* the triple (text, tokens, answer)
get_static_fallback(case_name, budget_level) ==
    IF case_name \in CatalogNames
    THEN LET budget_keys == BudgetKeys(CASE_STUDIES[case_name])
             budget_data == CASE_STUDIES[case_name].budgets[
                                SelectedBudget(budget_keys, budget_level)]
         IN  <<StaticFallbackMark \o budget_data.response,
               IntNum(budget_data.tokens),
               budget_data.answer>>
    ELSE <<<<"Fallback", "data", "not", "available">>, IntNum(0), <<"N/A">>>>

-----------------------------------------------------------------------------
(* Results.  A call either returns a value or raises.                      *)

Triple(trace, tokens, answer) == <<trace, tokens, answer>>
NoTriple == Triple(<<>>, <<>>, <<>>)

Ret(v) == [raised |-> FALSE, val |-> v]
Raise == [raised |-> TRUE, val |-> NoTriple]
\* generate_dynamic_response raising: its triple holds a number
DynRaise == [raised |-> TRUE, val |-> Triple(<<>>, IntNum(0), <<>>)]

NA == <<"N/A">>
ErrorGlyph == "[X]"

\* what the dropdown can hold: a catalog name, nothing, a name the catalog
\* lacks, or None
NoneName == "<None>"
CaseNames == CatalogNames \cup {"", "Unknown Case", NoneName}

\* not case_name
IsFalsyName(case_name) == case_name = "" \/ case_name = NoneName

\* custom_prompt.strip() is truthy
HasCustomPrompt(p) == Strip(p) # <<>>

\* f"[#] {actual_tokens} / {budget_tokens} tokens"
TokenDisplay(actual, ceiling) == <<"[#]", Fmt(actual), "/", ToString(ceiling), "tokens">>

\* f"[OK] {final_answer}"
AnswerDisplay(answer) == <<"[OK]">> \o answer

-----------------------------------------------------------------------------
(* generate_dynamic_response, in the pieces its callers step through       *)

\* the statements before the first candidate: the budget prompt, or the
\* TypeError of "Capital City Finder" in None
DynamicPrompt(prompt, budget_level, case_name) ==
    IF case_name = NoneName
    THEN [raised |-> TRUE, prompt |-> <<>>]
    ELSE [raised |-> FALSE,
          prompt |-> create_budget_prompt(prompt, BUDGET_MAPPING[budget_level],
                        IF IsAgenticName(case_name) THEN "agentic" ELSE "general")]

NeedsNextAlways(response_text) == TRUE

\* response_text is None: the next candidate is tried
NeedsNext(response_text) == response_text.none

\* the return of a usable response_text
DynamicReturn(response_text) ==
    Triple(response_text, count_tokens(response_text), extract_final_answer(response_text))

\* the whole function, given what each candidate returns when it is called
\* (r1 the hosted API's response_text, r2 the local model's)
generate_dynamic_response(prompt, budget_level, case_name, r1, r2) ==
    IF DynamicPrompt(prompt, budget_level, case_name).raised THEN DynRaise
    ELSE IF ~NeedsNext(r1) THEN Ret(DynamicReturn(r1.text))
    ELSE IF ~NeedsNext(r2) THEN Ret(DynamicReturn(r2.text))
    ELSE Ret(get_static_fallback(case_name, budget_level))

-----------------------------------------------------------------------------
(* The entry points *)

UpdateDisplayStaticLenient(case_name, budget_level) ==
    IF IsFalsyName(case_name) THEN Triple(<<>>, <<>>, <<>>)
    ELSE LET selected_case == IF case_name \in CatalogNames
                              THEN CASE_STUDIES[case_name]
                              ELSE CASE_STUDIES["Math Word Problem"]
             budget_keys == BudgetKeys(selected_case)
             selected_budget == SelectedBudget(budget_keys, budget_level)
             budget_data == selected_case.budgets[selected_budget]
         IN  Triple(budget_data.response,
                    TokenDisplay(IntNum(budget_data.tokens), selected_budget),
                    AnswerDisplay(budget_data.answer))

\* update_display below its custom-prompt branch
UpdateDisplayStatic(case_name, budget_level) ==
    IF IsFalsyName(case_name) THEN Triple(<<>>, <<>>, <<>>)
    ELSE IF case_name \notin CatalogNames
    THEN Triple(<<ErrorGlyph, "Case study not found.">>, NA, NA)
    ELSE LET selected_case == CASE_STUDIES[case_name]
             budget_keys == BudgetKeys(selected_case)
         IN  IF Len(budget_keys) < 3
             THEN Triple(<<ErrorGlyph, "Invalid case study data.">>, NA, NA)
             ELSE LET selected_budget == SelectedBudget(budget_keys, budget_level)
                      budget_data == selected_case.budgets[selected_budget]
                  IN  Triple(budget_data.response,
                             TokenDisplay(IntNum(budget_data.tokens), selected_budget),
                             AnswerDisplay(budget_data.answer))

\* the try block of update_display around generate_dynamic_response
UpdateDisplayCustom(dyn, budget_level) ==
    IF dyn.raised
    THEN Ret(Triple(<<ErrorGlyph, "Error processing custom prompt:">>, NA, NA))
    ELSE Ret(Triple(dyn.val[1],
                    TokenDisplay(dyn.val[2], BUDGET_MAPPING[budget_level]),
                    AnswerDisplay(dyn.val[3])))

\* the case name update_display and animate_reasoning hand on
CustomCaseName == "Custom"

\* the prompt generate_live_response and animate_live_response settle on
LivePrompt(case_name, custom) ==
    IF HasCustomPrompt(custom) THEN Some(Strip(custom))
    ELSE IF ~IsFalsyName(case_name) /\ case_name \in CatalogNames
    THEN Some(CASE_STUDIES[case_name].prompt)
    ELSE None

NoValidPrompt == <<ErrorGlyph, "No valid prompt available.">>

LiveResultNoExcept(dyn, budget_level) ==
    IF dyn.raised THEN Raise
    ELSE LET budget_tokens == BUDGET_MAPPING[budget_level]
             token_display ==
                 IF Contains(dyn.val[1], <<"[STATIC", "FALLBACK]">>)
                 THEN TokenDisplay(dyn.val[2], budget_tokens) \o <<"(Static)">>
                 ELSE TokenDisplay(dyn.val[2], budget_tokens) \o <<"(Live)">>
         IN  Ret(Triple(dyn.val[1], token_display, AnswerDisplay(dyn.val[3])))

\* the try block of generate_live_response
LiveResult(dyn, budget_level) ==
    IF dyn.raised
    THEN Ret(Triple(<<ErrorGlyph, "Error generating live response:">>, NA, NA))
    ELSE LET budget_tokens == BUDGET_MAPPING[budget_level]
             token_display ==
                 IF Contains(dyn.val[1], StaticFallbackMark)
                 THEN TokenDisplay(dyn.val[2], budget_tokens) \o <<"(Static)">>
                 ELSE TokenDisplay(dyn.val[2], budget_tokens) \o <<"(Live)">>
         IN  Ret(Triple(dyn.val[1], token_display, AnswerDisplay(dyn.val[3])))

\* what animate_reasoning yields on its custom-prompt branch
AnimateCustomChunks(dyn) ==
    IF dyn.raised THEN <<<<ErrorGlyph, "Error processing custom prompt:">>>>
    ELSE simulate_typing(dyn.val[1])

\* what animate_reasoning yields below its custom-prompt branch
AnimateStaticChunks(case_name, budget_level) ==
    IF IsFalsyName(case_name) THEN << <<>> >>
    ELSE IF case_name \notin CatalogNames
    THEN <<<<ErrorGlyph, "Case study not found.">>>>
    ELSE LET selected_case == CASE_STUDIES[case_name]
             budget_keys == BudgetKeys(selected_case)
         IN  IF Len(budget_keys) < 3
             THEN <<<<ErrorGlyph, "Invalid case study data.">>>>
             ELSE simulate_typing(
                    selected_case.budgets[SelectedBudget(budget_keys, budget_level)].response)

\* what animate_live_response yields after its resolution
AnimateLiveChunks(dyn) ==
    IF dyn.raised THEN <<<<ErrorGlyph, "Error generating live response:">>>>
    ELSE simulate_typing(dyn.val[1])

-----------------------------------------------------------------------------
(* Event handlers.  A handler record is one invocation of an entry point:  *)
(* its arguments, its position (pc), the locals that outlive a candidate   *)
(* call and the log of the calls it made.                                  *)

Handlers == {"animation", "response"}

Idle ==
    [pc |-> "idle", entry |-> "none",
     case_name |-> "", budget_level |-> "Low", custom_prompt |-> <<>>,
     dyn_case |-> "", budget_prompt |-> <<>>,
     hf |-> None, local |-> None,
     calls |-> <<>>, ret |-> Ret(NoTriple),
     chunks |-> <<>>, emitted |-> 0, raised |-> FALSE]

InFlight(r) == r.pc \in {"hf", "local", "typing"}

\* return of a function-style entry point
Done(r, ret) == [r EXCEPT !.pc = "done", !.ret = ret, !.raised = ret.raised]

\* a generator-style entry point holding the values it is still to yield
Typing(r, chunks) ==
    IF chunks = <<>> THEN [r EXCEPT !.pc = "done"]
    ELSE [r EXCEPT !.pc = "typing", !.chunks = chunks]

\* the caller's code after generate_dynamic_response returned or raised
Finish(r, dyn) ==
    CASE r.entry = "update_display" -> Done(r, UpdateDisplayCustom(dyn, r.budget_level))
      [] r.entry = "generate_live_response" -> Done(r, LiveResult(dyn, r.budget_level))
      [] r.entry = "animate_reasoning" -> Typing(r, AnimateCustomChunks(dyn))
      [] r.entry = "animate_live_response" -> Typing(r, AnimateLiveChunks(dyn))

\* the call of generate_dynamic_response, up to its first candidate
EnterDynamic(r, prompt, case_name) ==
    LET bp == DynamicPrompt(prompt, r.budget_level, case_name)
        r1 == [r EXCEPT !.dyn_case = case_name, !.calls = <<"dyn">>]
    IN  IF bp.raised THEN Finish(r1, DynRaise)
        ELSE [r1 EXCEPT !.pc = "hf", !.budget_prompt = bp.prompt]

\* an entry point from its call to its first candidate call, or to its end
Begin(entry, case_name, budget_level, custom) ==
    LET r == [Idle EXCEPT !.entry = entry, !.case_name = case_name,
                          !.budget_level = budget_level, !.custom_prompt = custom]
        lp == LivePrompt(case_name, custom)
    IN  CASE entry = "update_display" ->
               IF HasCustomPrompt(custom) THEN EnterDynamic(r, Strip(custom), CustomCaseName)
               ELSE Done(r, Ret(UpdateDisplayStatic(case_name, budget_level)))
          [] entry = "animate_reasoning" ->
               IF HasCustomPrompt(custom) THEN EnterDynamic(r, Strip(custom), CustomCaseName)
               ELSE Typing(r, AnimateStaticChunks(case_name, budget_level))
          [] entry = "generate_live_response" ->
               IF lp.none THEN Done(r, Ret(Triple(NoValidPrompt, NA, NA)))
               ELSE EnterDynamic(r, lp.text, case_name)
          [] entry = "animate_live_response" ->
               IF lp.none THEN Typing(r, <<NoValidPrompt>>)
               ELSE EnterDynamic(r, lp.text, case_name)

\* the hosted API answered: return, or go on to the local model
AfterHF(r, response_text) ==
    LET r1 == [r EXCEPT !.hf = response_text, !.calls = Append(@, "hf")]
    IN  IF NeedsNext(response_text) THEN [r1 EXCEPT !.pc = "local"]
        ELSE Finish(r1, Ret(DynamicReturn(response_text.text)))

\* the local model answered: return, or fall back to the canned example
AfterLocal(r, response_text) ==
    LET r1 == [r EXCEPT !.local = response_text, !.calls = Append(@, "local")]
    IN  IF NeedsNext(response_text)
        THEN Finish([r1 EXCEPT !.calls = Append(@, "fallback")],
                    Ret(get_static_fallback(r.dyn_case, r.budget_level)))
        ELSE Finish(r1, Ret(DynamicReturn(response_text.text)))

AfterYieldRequery(r) ==
    LET r1 == [r EXCEPT !.emitted = @ + 1,
                        !.calls = IF @ = <<>> THEN @ ELSE Append(@, "hf")]
    IN  IF r1.emitted = Len(r.chunks) THEN [r1 EXCEPT !.pc = "done"] ELSE r1

\* one turn of the typing loop: the next value is yielded
AfterYield(r) ==
    LET r1 == [r EXCEPT !.emitted = @ + 1]
    IN  IF r1.emitted = Len(r.chunks) THEN [r1 EXCEPT !.pc = "done"] ELSE r1

HandlerEntryAlwaysLive(slot, dynamic_mode_enabled) ==
    IF slot = "response" THEN "generate_live_response" ELSE "animate_live_response"

\* handle_response and handle_animation choose the entry point by the mode
HandlerEntry(slot, dynamic_mode_enabled) ==
    IF slot = "response"
    THEN (IF dynamic_mode_enabled THEN "generate_live_response" ELSE "update_display")
    ELSE (IF dynamic_mode_enabled THEN "animate_live_response" ELSE "animate_reasoning")

-----------------------------------------------------------------------------
(* A helper function called on its own, outside any handler: the text it   *)
(* is given, what it returned, and for the generator the values it has     *)
(* yielded so far.                                                         *)

FnIdle(text) ==
    [op |-> "none", pc |-> "idle", arg |-> text,
     answer |-> <<>>, tokens |-> IntNum(0), yielded |-> <<>>]

-----------------------------------------------------------------------------
(* State machine *)

Prompts == { <<>>, <<NL>>, <<"why?", NL>> }

LiveEntries == {"generate_live_response", "animate_live_response"}
Entries == {"update_display", "animate_reasoning"} \cup LiveEntries

EntrySlot(entry) ==
    IF entry \in {"update_display", "generate_live_response"} THEN "response" ELSE "animation"

Quiescent == \A s \in Handlers : ~InFlight(h[s])

\* The page as served: the first case, Low, no prompt, static mode, empty
\* outputs.  The credential and the local pipeline are settled at start-up.
Init ==
    /\ case_study_select = "Math Word Problem"
    /\ budget_radio = "Low"
    /\ custom_prompt = <<>>
    /\ dynamic_mode = FALSE
    /\ reasoning_trace = <<>>
    /\ actual_tokens = <<>>
    /\ final_answer = <<>>
    /\ hf_token \in BOOLEAN
    /\ local_model \in BOOLEAN
    /\ h = [s \in Handlers |-> Idle]
    /\ n_actions = 0
    /\ fn = FnIdle(<<>>)

\* the lambda around handle_response keeps [1:] of the triple for the two
\* metric boxes; a handler that raised writes nothing
MetricsAfter(slot, rec, old) ==
    IF slot = "response" /\ rec.pc = "done" /\ ~rec.raised
    THEN <<rec.ret.val[2], rec.ret.val[3]>>
    ELSE old

\* a handler moves on to the record rec
Advance(slot, rec) ==
    /\ h' = [h EXCEPT ![slot] = rec]
    /\ actual_tokens' = MetricsAfter(slot, rec, <<actual_tokens, final_answer>>)[1]
    /\ final_answer' = MetricsAfter(slot, rec, <<actual_tokens, final_answer>>)[2]

\* query_huggingface_api is called by the handler in slot
QueryHF(slot) ==
    /\ h[slot].pc = "hf"
    /\ \E o \in HFOutcomes :
         /\ (o.kind = "no_token") <=> ~hf_token
         /\ Advance(slot, AfterHF(h[slot], query_huggingface_api(h[slot].budget_prompt, o).text))
    /\ UNCHANGED <<case_study_select, budget_radio, custom_prompt, dynamic_mode,
                   reasoning_trace, hf_token, local_model, n_actions, fn>>

\* query_local_model is called by the handler in slot
QueryLocal(slot) ==
    /\ h[slot].pc = "local"
    /\ \E o \in LocalOutcomes :
         /\ (o.kind = "no_model") <=> ~local_model
         /\ Advance(slot, AfterLocal(h[slot], query_local_model(h[slot].budget_prompt, o).text))
    /\ UNCHANGED <<case_study_select, budget_radio, custom_prompt, dynamic_mode,
                   reasoning_trace, hf_token, local_model, n_actions, fn>>

\* the generator in slot yields its next value into the trace box
Yield(slot) ==
    /\ h[slot].pc = "typing"
    /\ h' = [h EXCEPT ![slot] = AfterYield(h[slot])]
    /\ reasoning_trace' = h[slot].chunks[h'[slot].emitted]
    /\ UNCHANGED <<case_study_select, budget_radio, custom_prompt, dynamic_mode,
                   actual_tokens, final_answer, hf_token, local_model, n_actions, fn>>

HandlerStep == \E s \in Handlers : QueryHF(s) \/ QueryLocal(s) \/ Yield(s)

\* One entry point is called with any arguments, on a page with empty
\* outputs whose controls hold those arguments.
Call ==
    /\ \A s \in Handlers : h[s].pc = "idle"
    /\ \E entry \in Entries, c \in CaseNames, b \in BudgetLevels, p \in Prompts :
         LET rec == Begin(entry, c, b, p)
         IN  /\ case_study_select' = c
             /\ budget_radio' = b
             /\ custom_prompt' = p
             /\ dynamic_mode' = (entry \in LiveEntries)
             /\ h' = [s \in Handlers |-> IF s = EntrySlot(entry) THEN rec ELSE Idle]
             /\ actual_tokens' = MetricsAfter(EntrySlot(entry), rec, <<<<>>, <<>>>>)[1]
             /\ final_answer' = MetricsAfter(EntrySlot(entry), rec, <<<<>>, <<>>>>)[2]
             /\ reasoning_trace' = <<>>
    /\ UNCHANGED <<hf_token, local_model, n_actions, fn>>

\* the page is loaded anew once the call is over
Reload ==
    /\ \E s \in Handlers : h[s].pc = "done"
    /\ Quiescent
    /\ case_study_select' = "Math Word Problem"
    /\ budget_radio' = "Low"
    /\ custom_prompt' = <<>>
    /\ dynamic_mode' = FALSE
    /\ reasoning_trace' = <<>>
    /\ actual_tokens' = <<>>
    /\ final_answer' = <<>>
    /\ h' = [s \in Handlers |-> Idle]
    /\ UNCHANGED <<hf_token, local_model, n_actions, fn>>

Next == Call \/ HandlerStep \/ Reload

Spec == Init /\ [][Next]_vars

-----------------------------------------------------------------------------
(* The page: every event is wired to handle_animation and, separately, to  *)
(* handle_response; both listeners get the controls' values at the event.  *)
(* A user action is taken here once the handlers of the last one are done. *)

Dispatch(c, b, p, d) ==
    LET anim == Begin(HandlerEntry("animation", d), c, b, p)
        resp == Begin(HandlerEntry("response", d), c, b, p)
    IN  /\ h' = [s \in Handlers |-> IF s = "animation" THEN anim ELSE resp]
        /\ actual_tokens' = MetricsAfter("response", resp, <<actual_tokens, final_answer>>)[1]
        /\ final_answer' = MetricsAfter("response", resp, <<actual_tokens, final_answer>>)[2]
        /\ reasoning_trace' = reasoning_trace
        /\ n_actions' = n_actions + 1
        /\ UNCHANGED <<hf_token, local_model, fn>>

\* demo.load
Load ==
    /\ n_actions = 0
    /\ Dispatch(case_study_select, budget_radio, custom_prompt, dynamic_mode)
    /\ UNCHANGED <<case_study_select, budget_radio, custom_prompt, dynamic_mode>>

MayAct == n_actions >= 1 /\ n_actions < MaxActions /\ Quiescent

\* case_study_select.change
ChangeCase ==
    /\ MayAct
    /\ \E c \in CaseNames \ {case_study_select} :
         /\ case_study_select' = c
         /\ Dispatch(c, budget_radio, custom_prompt, dynamic_mode)
    /\ UNCHANGED <<budget_radio, custom_prompt, dynamic_mode>>

\* budget_radio.change
ChangeBudget ==
    /\ MayAct
    /\ \E b \in BudgetLevels \ {budget_radio} :
         /\ budget_radio' = b
         /\ Dispatch(case_study_select, b, custom_prompt, dynamic_mode)
    /\ UNCHANGED <<case_study_select, custom_prompt, dynamic_mode>>

\* custom_prompt.change
ChangePrompt ==
    /\ MayAct
    /\ \E p \in Prompts \ {custom_prompt} :
         /\ custom_prompt' = p
         /\ Dispatch(case_study_select, budget_radio, p, dynamic_mode)
    /\ UNCHANGED <<case_study_select, budget_radio, dynamic_mode>>

\* dynamic_mode.change
ToggleDynamic ==
    /\ MayAct
    /\ dynamic_mode' = ~dynamic_mode
    /\ Dispatch(case_study_select, budget_radio, custom_prompt, ~dynamic_mode)
    /\ UNCHANGED <<case_study_select, budget_radio, custom_prompt>>

NextUI == Load \/ ChangeCase \/ ChangeBudget \/ ChangePrompt \/ ToggleDynamic \/ HandlerStep

SpecUI == Init /\ [][NextUI]_vars

-----------------------------------------------------------------------------
(* The entry points as functions of their arguments and of what the two    *)
(* candidates return (r1 the hosted API, r2 the local model)               *)

update_display(case_name, budget_level, custom, r1, r2) ==
    IF HasCustomPrompt(custom)
    THEN UpdateDisplayCustom(
            generate_dynamic_response(Strip(custom), budget_level, CustomCaseName, r1, r2),
            budget_level)
    ELSE Ret(UpdateDisplayStatic(case_name, budget_level))

generate_live_response(case_name, budget_level, custom, r1, r2) ==
    LET lp == LivePrompt(case_name, custom)
    IN  IF lp.none THEN Ret(Triple(NoValidPrompt, NA, NA))
        ELSE LiveResult(generate_dynamic_response(lp.text, budget_level, case_name, r1, r2),
                        budget_level)

animate_reasoning(case_name, budget_level, custom, r1, r2) ==
    IF HasCustomPrompt(custom)
    THEN AnimateCustomChunks(
            generate_dynamic_response(Strip(custom), budget_level, CustomCaseName, r1, r2))
    ELSE AnimateStaticChunks(case_name, budget_level)

animate_live_response(case_name, budget_level, custom, r1, r2) ==
    LET lp == LivePrompt(case_name, custom)
    IN  IF lp.none THEN <<NoValidPrompt>>
        ELSE AnimateLiveChunks(
                generate_dynamic_response(lp.text, budget_level, case_name, r1, r2))

\* what an entry point hands back: its triple, or the values it yields
Outcome2(entry, case_name, budget_level, custom, r1, r2) ==
    CASE entry = "update_display" ->
            <<update_display(case_name, budget_level, custom, r1, r2).val, <<>>>>
      [] entry = "generate_live_response" ->
            <<generate_live_response(case_name, budget_level, custom, r1, r2).val, <<>>>>
      [] entry = "animate_reasoning" ->
            <<NoTriple, animate_reasoning(case_name, budget_level, custom, r1, r2)>>
      [] entry = "animate_live_response" ->
            <<NoTriple, animate_live_response(case_name, budget_level, custom, r1, r2)>>

\* what a finished handler handed back
Handed(r) == <<r.ret.val, r.chunks>>

\* The stepped handlers and the functions above are the same program: a
\* finished handler holds what the function gives for the candidates' returns.
StepsAgree ==
    \A s \in Handlers :
        h[s].pc = "done" /\ ~h[s].raised =>
            Handed(h[s]) = Outcome2(h[s].entry, h[s].case_name, h[s].budget_level,
                                    h[s].custom_prompt, h[s].hf, h[s].local)

-----------------------------------------------------------------------------
(* Properties *)

Has(calls, name) == \E i \in 1..Len(calls) : calls[i] = name
Count(calls, name) == Cardinality({i \in 1..Len(calls) : calls[i] = name})
IsPrefixOf(a, b) == Len(a) <= Len(b) /\ SubSeq(b, 1, Len(a)) = a

ChainOrder == <<"dyn", "hf", "local", "fallback">>

\* the text a finished or typing handler got from its resolution
ResolvedText(r, text) ==
    IF EntrySlot(r.entry) = "response"
    THEN r.pc = "done" /\ r.ret.val[1] = text
    ELSE r.pc \in {"typing", "done"} /\ r.chunks = simulate_typing(text)

\* C1: in generate_dynamic_response the candidates are tried in the fixed
\* order hosted API, local model, each at most once; the first usable
\* response_text is what the resolution returns, and after it no later
\* candidate and no static fallback is tried.
C1_FirstUsableWins ==
    \A s \in Handlers :
        LET r == h[s]
        IN  /\ IsPrefixOf(r.calls, ChainOrder)
            /\ (Has(r.calls, "hf") /\ ~r.hf.none) =>
                   /\ r.calls = <<"dyn", "hf">>
                   /\ ResolvedText(r, r.hf.text)
            /\ (Has(r.calls, "local") /\ ~r.local.none) =>
                   /\ r.calls = <<"dyn", "hf", "local">>
                   /\ r.hf.none
                   /\ ResolvedText(r, r.local.text)

\* the hosted API failed, the local model answered, and its text is returned
C1_Witness ==
    \E s \in Handlers :
        /\ h[s].pc = "done"
        /\ h[s].calls = <<"dyn", "hf", "local">>
        /\ h[s].hf.none /\ ~h[s].local.none
        /\ h[s].local.text # <<>>
        /\ h[s].entry = "generate_live_response"
        /\ h[s].ret.val[1] = h[s].local.text

AllFailed(r) == r.pc = "done" /\ r.calls = ChainOrder

CannedExample(case_name, position) ==
    CASE_STUDIES[case_name].budgets[CASE_STUDIES[case_name].keys[position]]

Position(budget_level) ==
    CASE budget_level = "Low" -> 1 [] budget_level = "Medium" -> 2 [] budget_level = "High" -> 3

\* C2: when every candidate fails, generate_live_response returns, for a
\* catalog case without custom prompt, the canned Example of that case and
\* tier marked as fallback; for a non-empty custom prompt it returns an
\* error result with a token count of zero and a non-empty diagnostic.
C2_FallbackOrError ==
    LET r == h["response"]
        ex == CannedExample(r.case_name, Position(r.budget_level))
    IN  (r.entry = "generate_live_response" /\ AllFailed(r)) =>
          /\ (Strip(r.custom_prompt) = <<>> /\ r.case_name \in CatalogNames) =>
                /\ r.ret.val[1] = StaticFallbackMark \o ex.response
                /\ r.ret.val[2][2] = ToString(ex.tokens)
                /\ r.ret.val[2][Len(r.ret.val[2])] = "(Static)"
                /\ r.ret.val[3] = <<"[OK]">> \o ex.answer
          /\ (Strip(r.custom_prompt) # <<>>) =>
                /\ r.ret.val[2][2] = "0"
                /\ r.ret.val[1] # <<>>
                /\ ~Contains(r.ret.val[1], StaticFallbackMark)

StringNames == CaseNames \ {NoneName}

\* C3: with a non-empty custom prompt the result does not depend on the
\* case selection: the same entry point, called with any other case name
\* and getting the same returns from the candidates, hands back the same
\* trace, token-usage string and answer.
C3_CaseIrrelevant ==
    \A s \in Handlers :
        LET r == h[s]
        IN  (r.pc = "done" /\ Strip(r.custom_prompt) # <<>> /\ r.case_name \in StringNames) =>
              \A c2 \in StringNames :
                  Outcome2(r.entry, c2, r.budget_level, r.custom_prompt, r.hf, r.local)
                      = Handed(r)

StaticLookup(r) ==
    /\ r.entry = "update_display"
    /\ r.pc = "done"
    /\ Strip(r.custom_prompt) = <<>>
    /\ r.case_name \in CatalogNames

\* C4: every case has exactly three budget entries, and update_display with
\* an empty custom prompt returns, for Low / Medium / High, the response, the
\* recorded token count and the answer of the first / second / third entry.
C4_StaticRoundTrip ==
    /\ \A c \in CatalogNames :
          /\ Len(CASE_STUDIES[c].keys) = 3
          /\ Cardinality(DOMAIN CASE_STUDIES[c].budgets) = 3
          /\ {CASE_STUDIES[c].keys[i] : i \in 1..3} = DOMAIN CASE_STUDIES[c].budgets
    /\ LET r == h["response"]
           ex == CannedExample(r.case_name, Position(r.budget_level))
       IN  StaticLookup(r) =>
             /\ r.ret.val[1] = ex.response
             /\ r.ret.val[2][2] = ToString(ex.tokens)
             /\ r.ret.val[3] = <<"[OK]">> \o ex.answer

\* the third entry of a case whose keys are not the nominal ceilings
C4_Witness ==
    /\ StaticLookup(h["response"])
    /\ h["response"].case_name = "Capital City Finder"
    /\ h["response"].budget_level = "High"
    /\ h["response"].ret.val[1] = CASE_STUDIES["Capital City Finder"].budgets[150].response
    /\ actual_tokens[2] = "145"

NominalCeiling(budget_level) ==
    CASE budget_level = "Low" -> 50 [] budget_level = "Medium" -> 110 [] budget_level = "High" -> 200

\* C5: the token-usage string of a static-mode resolution is
\* "<count> / <ceiling> tokens" with <ceiling> the ceiling bound to the
\* tier: 50 for Low, 110 for Medium, 200 for High.
C5_CeilingOfTier ==
    LET r == h["response"]
        ex == CannedExample(r.case_name, Position(r.budget_level))
    IN  StaticLookup(r) =>
          r.ret.val[2] = <<"[#]", ToString(ex.tokens), "/",
                           ToString(NominalCeiling(r.budget_level)), "tokens">>

\* a resolution that ended in a failure the user sees
EndedInFailure(r) ==
    /\ r.pc = "done"
    /\ EntrySlot(r.entry) = "response"
    /\ \/ r.entry = "update_display" /\ Strip(r.custom_prompt) = <<>>
          /\ r.case_name \notin CatalogNames \cup {"", NoneName}
       \/ r.entry = "generate_live_response" /\ Strip(r.custom_prompt) = <<>>
          /\ r.case_name \notin CatalogNames
       \/ r.calls = ChainOrder /\ r.dyn_case \notin CatalogNames
       \/ r.calls = <<"dyn">>

\* C6: every resolution that ends in a user-visible failure returns a trace
\* with the error glyph and "N/A" for both the token usage and the answer.
C6_FailuresAreLabelled ==
    LET r == h["response"]
    IN  EndedInFailure(r) =>
          /\ StartsWith(r.ret.val[1], <<ErrorGlyph>>)
          /\ r.ret.val[2] = NA
          /\ r.ret.val[3] = NA

\* C7: whatever the candidates do, no entry point lets an exception escape:
\* update_display and generate_live_response return a triple,
\* animate_reasoning and animate_live_response end normally.
C7_NothingEscapes ==
    \A s \in Handlers :
        /\ ~h[s].raised
        /\ (h[s].pc = "done" /\ s = "response") =>
              /\ ~h[s].ret.raised
              /\ Len(h[s].ret.val) = 3

\* both candidates were configured and both failed at run time, and the
\* entry point still returned
C7_Witness ==
    \E s \in Handlers :
        /\ hf_token /\ local_model
        /\ AllFailed(h[s])
        /\ Strip(h[s].custom_prompt) # <<>>
        /\ ~h[s].raised

InChain(r) == r.pc \in {"hf", "local"}

\* C8: a user action triggers one resolution: the provider chain is entered
\* at most once per action, and two resolutions of one action are never in
\* flight together.
C8_OneResolutionPerAction ==
    /\ Cardinality({s \in Handlers : Has(h[s].calls, "dyn")}) <= 1
    /\ ~(InChain(h["animation"]) /\ InChain(h["response"]))

\* C9 as stated: with dynamic mode off no candidate is ever called
C9_StaticNeverCalls ==
    ~dynamic_mode => \A s \in Handlers : ~Has(h[s].calls, "hf") /\ ~Has(h[s].calls, "local")

\* C9: with dynamic mode off and the custom prompt empty after trimming,
\* a resolution is answered from the catalog only: neither the hosted API
\* nor the local model is called.
C9_StaticEmptyPromptNeverCalls ==
    (~dynamic_mode /\ Strip(custom_prompt) = <<>>) => \A s \in Handlers : h[s].calls = <<>>

\* a blank-only prompt in static mode, answered from the catalog
C9_Witness ==
    /\ ~dynamic_mode
    /\ custom_prompt = <<NL>>
    /\ n_actions = 2
    /\ h["response"].pc = "done"
    /\ h["response"].ret.val[1] = CASE_STUDIES[case_study_select].budgets[50].response
    /\ h["animation"].pc = "done"
    /\ h["animation"].emitted = 3

\* a generator that has a prompt to resolve
Streams(r) ==
    \/ r.entry = "animate_live_response" /\ ~LivePrompt(r.case_name, r.custom_prompt).none
    \/ r.entry = "animate_reasoning" /\ Strip(r.custom_prompt) # <<>>

\* C10: a streaming invocation calls generate_dynamic_response exactly once,
\* before its first chunk, and calls nothing more while or after it emits.
C10_ResolveOnceThenType ==
    /\ [](LET r == h["animation"]
          IN  (Streams(r) /\ r.pc \in {"typing", "done"}) =>
                 /\ Count(r.calls, "dyn") = 1
                 /\ Count(r.calls, "hf") <= 1
                 /\ Count(r.calls, "local") <= 1)
    /\ [][(h["animation"].pc \in {"typing", "done"} /\ h'["animation"].pc \in {"typing", "done"})
            => h'["animation"].calls = h["animation"].calls]_vars

\* two chunks of a live text are out, after one call of the hosted API
C10_Witness ==
    /\ h["animation"].entry = "animate_live_response"
    /\ h["animation"].emitted >= 2
    /\ h["animation"].calls = <<"dyn", "hf">>
    /\ reasoning_trace = SubSeq(Words(h["animation"].hf.text), 1, h["animation"].emitted)

-----------------------------------------------------------------------------
(* The helper functions on their own: extract_final_answer, count_tokens   *)
(* and simulate_typing applied to any text of up to MaxLen tokens.         *)

\* tokens of a text given to a helper function
MaxLen == 4

Sentinel == "No clear answer found"

\* words of either letter case, a plain word, the line break, a token the
\* tokenizer refuses, and the phrase of the sentinel
Vocab == {"Final", "Answer:", "answer:", "x", NL, SpecialTok, Sentinel}

Texts == UNION {[1..k -> Vocab] : k \in 0..MaxLen}

pagevars == <<case_study_select, budget_radio, custom_prompt, dynamic_mode,
              reasoning_trace, actual_tokens, final_answer,
              hf_token, local_model, h, n_actions>>

InitFn ==
    /\ case_study_select = "Math Word Problem"
    /\ budget_radio = "Low"
    /\ custom_prompt = <<>>
    /\ dynamic_mode = FALSE
    /\ reasoning_trace = <<>>
    /\ actual_tokens = <<>>
    /\ final_answer = <<>>
    /\ hf_token = FALSE
    /\ local_model = FALSE
    /\ h = [s \in Handlers |-> Idle]
    /\ n_actions = 0
    /\ \E t \in Texts : fn = FnIdle(t)

CallExtract ==
    /\ fn.pc = "idle"
    /\ fn' = [fn EXCEPT !.op = "extract_final_answer", !.pc = "done",
                        !.answer = extract_final_answer(fn.arg)]
    /\ UNCHANGED pagevars

CallCount ==
    /\ fn.pc = "idle"
    /\ fn' = [fn EXCEPT !.op = "count_tokens", !.pc = "done",
                        !.tokens = count_tokens(fn.arg)]
    /\ UNCHANGED pagevars

\* simulate_typing(text): the generator is made, nothing of it has run
StartTyping ==
    /\ fn.pc = "idle"
    /\ fn' = [fn EXCEPT !.op = "simulate_typing", !.pc = "running"]
    /\ UNCHANGED pagevars

\* next() on the generator: its next value, or its end; a generator that
\* has ended stays ended
NextValue ==
    /\ fn.op = "simulate_typing"
    /\ fn.pc \in {"running", "done"}
    /\ LET values == simulate_typing(fn.arg)
           k == Len(fn.yielded)
       IN  IF fn.pc = "running" /\ k < Len(values)
           THEN fn' = [fn EXCEPT !.yielded = Append(@, values[k + 1])]
           ELSE fn' = [fn EXCEPT !.pc = "done"]
    /\ UNCHANGED pagevars

NextFn == CallExtract \/ CallCount \/ StartTyping \/ NextValue

SpecFn == InitFn /\ [][NextFn]_vars

SingleSpaced(text) == \A i \in 1..Len(text) : text[i] # NL

\* C11: for a text of n words separated by single blanks simulate_typing
\* yields exactly n values, the k-th being the first k words joined by
\* single blanks, the last the whole text; then it ends, and an ended
\* generator yields nothing more.
C11_TypingPrefixes ==
    /\ []((fn.op = "simulate_typing" /\ SingleSpaced(fn.arg)) =>
            /\ Len(fn.yielded) <= Len(fn.arg)
            /\ \A k \in 1..Len(fn.yielded) : fn.yielded[k] = SubSeq(fn.arg, 1, k)
            /\ fn.pc = "done" =>
                  /\ Len(fn.yielded) = Len(fn.arg)
                  /\ fn.arg # <<>> => fn.yielded[Len(fn.yielded)] = fn.arg)
    /\ [][(fn.op = "simulate_typing" /\ SingleSpaced(fn.arg)) =>
            /\ (fn.pc = "running" /\ Len(fn.yielded) = Len(fn.arg)) => fn'.pc = "done"
            /\ fn.pc = "done" => fn' = fn]_vars

\* three words typed out and the generator ended
C11_Witness ==
    /\ fn.op = "simulate_typing"
    /\ fn.pc = "done"
    /\ fn.arg = <<"x", "Final", "x">>
    /\ fn.yielded = << <<"x">>, <<"x", "Final">>, <<"x", "Final", "x">> >>

-----------------------------------------------------------------------------
\* a static-mode entry point called with a blank custom prompt
StaticBlank(r) ==
    /\ r.entry \in {"update_display", "animate_reasoning"}
    /\ r.pc # "idle"
    /\ Strip(r.custom_prompt) = <<>>

UnknownName(case_name) == ~IsFalsyName(case_name) /\ case_name \notin CatalogNames

Malformed(case_name) ==
    case_name \in CatalogNames /\ Len(CASE_STUDIES[case_name].keys) < 3

DataError(case_name) ==
    IF UnknownName(case_name) THEN <<ErrorGlyph, "Case study not found.">>
    ELSE <<ErrorGlyph, "Invalid case study data.">>

\* C12: in static mode with a blank custom prompt, a non-empty case name the
\* catalog lacks (or a case with fewer than three budget entries) is answered
\* at once with the labelled error and "N/A" metrics: update_display returns
\* it, animate_reasoning yields it as its only value, and neither calls
\* generate_dynamic_response, a candidate or the fallback.
C12_DataErrorsReportedDirectly ==
    \A s \in Handlers :
        LET r == h[s]
        IN  (StaticBlank(r) /\ (UnknownName(r.case_name) \/ Malformed(r.case_name))) =>
              /\ r.calls = <<>>
              /\ r.hf.none /\ r.local.none
              /\ ~r.raised
              /\ r.entry = "update_display" =>
                    /\ r.pc = "done"
                    /\ r.ret = Ret(Triple(DataError(r.case_name), NA, NA))
              /\ r.entry = "animate_reasoning" =>
                    /\ r.chunks = <<DataError(r.case_name)>>
                    /\ r.emitted <= 1

\* update_display("Unknown Case", "High", "") has returned
C12_Witness ==
    /\ h["response"].entry = "update_display"
    /\ h["response"].pc = "done"
    /\ h["response"].case_name = "Unknown Case"
    /\ h["response"].budget_level = "High"
    /\ h["response"].custom_prompt = <<>>
    /\ h["response"].ret.val[1] = <<ErrorGlyph, "Case study not found.">>
    /\ h["response"].calls = <<>>
    /\ actual_tokens = NA
    /\ final_answer = NA

-----------------------------------------------------------------------------
Lower(tok) ==
    CASE tok = "Final" -> "final"
      [] tok = "Answer:" -> "answer:"
      [] OTHER -> tok

LowerSeq(t) == [i \in 1..Len(t) |-> Lower(t[i])]

\* the line, leading blanks aside, starts with the prefix in any letter case
StartsWithAnyCase(line, prefix) == StartsWith(LowerSeq(Strip(line)), LowerSeq(prefix))

\* the line, leading blanks aside, starts with the prefix as written
StartsWithExact(line, prefix) == StartsWith(Strip(line), prefix)

\* index of the first line for which Match holds, 0 if there is none
FirstIndex(lines, Match(_)) ==
    IF \E i \in 1..Len(lines) : Match(lines[i])
    THEN CHOOSE i \in 1..Len(lines) :
            Match(lines[i]) /\ \A j \in 1..(i - 1) : ~Match(lines[j])
    ELSE 0

\* what is left of the line behind a prefix of n words, trimmed
Remainder(line, n) == LET l == Strip(line) IN Strip(SubSeq(l, n + 1, Len(l)))

Extracted == fn.op = "extract_final_answer" /\ fn.pc = "done"

\* C13: if a line starts, in any letter case and leading blanks aside, with
\* "Final Answer:", the answer is taken from the first such line, also when
\* a line starting with "Answer:" comes earlier; otherwise it is taken from
\* the first line starting with "Answer:" in any letter case.  (Either way
\* of removing the prefix from that line is accepted.)
C13_FinalAnswerFirstAnyCase ==
    Extracted =>
       LET lines == SplitLines(fn.arg)
           IsFinal(l) == StartsWithAnyCase(l, FinalAnswerPrefix)
           IsAnswer(l) == StartsWithAnyCase(l, AnswerPrefix)
           f == FirstIndex(lines, IsFinal)
           a == FirstIndex(lines, IsAnswer)
           FromLine(l, prefix) ==
               \/ fn.answer = Remainder(l, Len(prefix))
               \/ fn.answer = Strip(RemoveAll(Strip(l), prefix))
       IN  /\ f # 0 => FromLine(lines[f], FinalAnswerPrefix)
           /\ (f = 0 /\ a # 0) => FromLine(lines[a], AnswerPrefix)

\* C14: when a line starts with "Final Answer:" or "Answer:", the result is
\* what stands behind that prefix on the first such line, trimmed and
\* otherwise untouched, later occurrences of the prefix words included.
C14_ExactRemainder ==
    Extracted =>
       LET lines == SplitLines(fn.arg)
           IsMatch(l) == StartsWithExact(l, FinalAnswerPrefix) \/ StartsWithExact(l, AnswerPrefix)
           m == FirstIndex(lines, IsMatch)
       IN  m # 0 =>
             fn.answer = IF StartsWithExact(lines[m], FinalAnswerPrefix)
                         THEN Remainder(lines[m], Len(FinalAnswerPrefix))
                         ELSE Remainder(lines[m], Len(AnswerPrefix))

-----------------------------------------------------------------------------
IsMatchingLine(l) ==
    StartsWithExact(l, FinalAnswerPrefix) \/ StartsWithExact(l, AnswerPrefix)

NoMatchingLine(text) ==
    \A i \in 1..Len(SplitLines(text)) : ~IsMatchingLine(SplitLines(text)[i])

IsNonBlankLine(l) == Strip(l) # <<>>

HasNonBlankLine(text) ==
    \E i \in 1..Len(SplitLines(text)) : IsNonBlankLine(SplitLines(text)[i])

LastNonBlankLine(text) ==
    LET lines == SplitLines(text)
        i == CHOOSE k \in 1..Len(lines) :
                /\ IsNonBlankLine(lines[k])
                /\ \A j \in (k + 1)..Len(lines) : ~IsNonBlankLine(lines[j])
    IN  Strip(lines[i])

LastLineRule ==
    (Extracted /\ NoMatchingLine(fn.arg) /\ HasNonBlankLine(fn.arg)) =>
        fn.answer = LastNonBlankLine(fn.arg)

-----------------------------------------------------------------------------
Counted == fn.op = "count_tokens" /\ fn.pc = "done"

\* round() of a value given in tenths, ties to the even neighbour
RoundTenths(x10) ==
    LET q == x10 \div 10
        r == x10 % 10
    IN  IF r < 5 THEN q
        ELSE IF r > 5 THEN q + 1
        ELSE IF q % 2 = 0 THEN q ELSE q + 1

\* C16: count_tokens returns a non-negative integer, 0 for the empty text;
\* where the tokenizer refuses the text the value is
\* round(word_count * 1.3).
C16_NonNegativeInteger ==
    Counted =>
       /\ ~fn.tokens.float
       /\ fn.tokens.x10 % 10 = 0
       /\ fn.tokens.x10 >= 0
       /\ fn.arg = <<>> => fn.tokens.x10 = 0
       /\ EncodeRaises(fn.arg) =>
             fn.tokens = IntNum(RoundTenths(13 * Len(Words(fn.arg))))

-----------------------------------------------------------------------------
\* C17: a candidate's generated text counts as a success only if it is not
\* empty (also once the echoed prompt is taken off), so a live resolution
\* that got as far as a candidate never returns an empty trace.
C17_EmptyTextIsNotSuccess ==
    \A s \in Handlers :
        LET r == h[s]
        IN  /\ (Has(r.calls, "hf") /\ ~r.hf.none) => r.hf.text # <<>>
            /\ (Has(r.calls, "local") /\ ~r.local.none) => r.local.text # <<>>
            /\ (r.entry = "generate_live_response" /\ r.pc = "done"
                  /\ Has(r.calls, "hf")) => r.ret.val[1] # <<>>

\* generate_live_response returned what generate_dynamic_response returned
LiveReturned(r) ==
    /\ r.entry = "generate_live_response"
    /\ r.pc = "done"
    /\ Has(r.calls, "hf")

ProvenanceTag(r) == r.ret.val[2][Len(r.ret.val[2])]

ByCandidate(r) == ~r.hf.none \/ ~r.local.none

\* C18: the token-usage string of generate_live_response ends in "(Live)"
\* exactly when the returned trace came from a candidate, and in "(Static)"
\* exactly when every candidate failed and the static fallback answered.
C18_ProvenanceFaithful ==
    LET r == h["response"]
    IN  LiveReturned(r) =>
          /\ ProvenanceTag(r) = "(Live)" <=> ByCandidate(r)
          /\ ProvenanceTag(r) = "(Static)" <=> r.calls = ChainOrder

-----------------------------------------------------------------------------
\* both listeners of the last user action have finished
BothShown ==
    /\ n_actions >= 1
    /\ h["animation"].pc = "done"
    /\ h["response"].pc = "done"

\* the words of the trace the animation handler ended on
ShownTrace ==
    LET chunks == h["animation"].chunks
    IN  IF chunks = <<>> THEN <<>> ELSE chunks[Len(chunks)]

\* C19: after a user action in live mode or with a custom prompt, the trace
\* the animation handler shows is the trace whose token count and answer the
\* response handler shows: both come from one provider response.
C19_TraceAndMetricsAgree ==
    (BothShown /\ (dynamic_mode \/ HasCustomPrompt(custom_prompt))) =>
        ShownTrace = Words(h["response"].ret.val[1])

-----------------------------------------------------------------------------
AllKeys == UNION {DOMAIN CASE_STUDIES[c].budgets : c \in CatalogNames}

AllCounts ==
    UNION {{CASE_STUDIES[c].budgets[k].tokens : k \in DOMAIN CASE_STUDIES[c].budgets} :
           c \in CatalogNames}

KeysAscending(c) ==
    LET keys == CASE_STUDIES[c].keys
    IN  \A i \in 1..(Len(keys) - 1) : keys[i] < keys[i + 1]

CountsWithinKeys(c) ==
    \A k \in DOMAIN CASE_STUDIES[c].budgets : CASE_STUDIES[c].budgets[k].tokens <= k

\* C20: the case a static-mode lookup shows has its budget keys in strictly
\* ascending order and every recorded token count at most its key, and the
\* usage string returned reads "<count> / <number> tokens" with
\* count <= number.
C20_CountWithinCeiling ==
    LET r == h["response"]
    IN  StaticLookup(r) =>
          /\ KeysAscending(r.case_name)
          /\ CountsWithinKeys(r.case_name)
          /\ \E k \in AllKeys, n \in AllCounts :
                n <= k /\ r.ret.val[2] = TokenDisplay(IntNum(n), k)

====
